---- MODULE Spec2Model ----
(***************************************************************************)
(* A model of the fantasy-football report scripts.                         *)
(*                                                                         *)
(*   optimal_lineup_analysis.py : load_maps, process_matchup_data,        *)
(*                                select_optimal_lineup, format_output_csv *)
(*   get_matchups.py            : fetch_ytd_matchups                       *)
(*                                                                         *)
(* Scores are integers in units of 0.05 point, so MIN_PLAYING_SCORE (0.1)  *)
(* is 2.  Scores that reach the threshold are even, which makes the mean   *)
(* of the two middle scores of an even sample an integer.                  *)
(* Player ids and roster ids are integers ordered as the code orders the   *)
(* strings it uses for them.                                               *)
(***************************************************************************)
EXTENDS Integers, Sequences, FiniteSets, TLC

VARIABLES
    pc,                \* position of the script that is running
    player_data,       \* sleeper_players.json : player id -> details
    week_files,        \* ytd_matchups_data : week number -> list of box scores
    position_map, full_position_map, name_map, ir_players,   \* load_maps
    df_median, df_excluded_single_matchup, player_to_roster, \* process_matchup_data
    df_optimal, df_remaining,                             \* select_optimal_lineup
    ir_rows,           \* format_output_csv : the IR disqualified list
    sorted_roster_ids, \* the rosters in the order of their lineup totals
    final_output,      \* the rows of the CSV file written
    week,              \* fetch_ytd_matchups : the loop variable
    requested,         \* the weeks requested, in the order of the requests
    saved,             \* the weeks whose matchups_week_<week>.json was written
    failed,            \* the weeks whose request raised RequestException
    rosters_data,      \* fetch_roster_user_map : the rosters the API returns
    users_data,        \* the users the API returns
    roster_name_map,   \* roster_name_map.json
    ytd_files,         \* analyze_ytd_starters : file -> list of team objects
    ytd_report,        \* ytd_starter_analysis.csv : the rows written
    points_series,     \* get_benchmark_scores : the series of points
    benchmark          \* the pair get_benchmark_scores returns

\* the variables of the scripts other than the analysis and the matchup fetch
formatVars == <<ir_rows, sorted_roster_ids, final_output>>

FormatIdle == ir_rows = <<>> /\ sorted_roster_ids = <<>> /\ final_output = <<>>

rosterMapVars == <<rosters_data, users_data, roster_name_map>>

ytdVars == <<ytd_files, ytd_report>>

benchmarkVars == <<points_series, benchmark>>

reportVars == <<rosterMapVars, ytdVars, benchmarkVars>>

\* those scripts have not run
RosterMapIdle == rosters_data = <<>> /\ users_data = <<>> /\ roster_name_map = <<>>

YtdIdle == ytd_files = <<>> /\ ytd_report = <<>>

BenchmarkIdle == points_series = <<>> /\ benchmark = <<>>

ReportsIdle == RosterMapIdle /\ YtdIdle /\ BenchmarkIdle

vars == <<pc, player_data, week_files, position_map, full_position_map, name_map, ir_players,
          df_median, df_excluded_single_matchup, player_to_roster,
          df_optimal, df_remaining, formatVars, week, requested, saved, failed, reportVars>>

(***************************************************************************)
(* Bounds of the model                                                     *)
(***************************************************************************)
MaxRows == 5           \* rows of a median table handed to select_optimal_lineup directly
MaxUsers == 2          \* users the API returns to fetch_roster_user_map
MaxLeagueRosters == 2  \* rosters the API returns to fetch_roster_user_map
MaxYtdFiles == 2       \* weekly files analyze_ytd_starters reads
MaxFormatRows == 6     \* rows of a median table whose report is formatted
MaxFreeLen == 5        \* points of a series in any order
MaxRunLen == 14        \* equal points that follow them in the series

\* the players of the player file
Players == 1..7
Rosters == {1, 2}
\* scores a box score can hold: 0 (bye / did not play), 0.1, 0.3
PointValues == {0, 2, 6}
\* medians a table handed to select_optimal_lineup directly can hold
MedianValues == {2, 6}

(***************************************************************************)
(* Program constants                                                       *)
(***************************************************************************)
LEAGUE_ID == "1189644119835193344"
CURRENT_WEEK == 6
MIN_PLAYING_SCORE == 2
SINGLE_MATCHUP_MIN_WEEK == 4
ELIGIBLE_POSITIONS == {"QB", "RB", "WR", "TE"}
FLEX_ELIGIBLE_WithQB == {"QB", "RB", "WR", "TE"}   \* the SUPERFLEX list used for FLEX
FLEX_ELIGIBLE == {"RB", "WR", "TE"}
SUPERFLEX_ELIGIBLE == {"QB", "RB", "WR", "TE"}   \* SF_ELIGIBLE in the source
MANDATORY_ORDER == <<"QB", "RB", "WR", "TE">>
MANDATORY_SLOTS == [pos \in {"QB", "RB", "WR", "TE"} |->
                      CASE pos = "QB" -> 1 [] pos = "RB" -> 2 [] pos = "WR" -> 3 [] pos = "TE" -> 1]
\* a single FLEX slot
STARTER_SLOTS_OneFlex ==
    [s \in {"QB", "RB", "WR", "TE", "FLEX", "SUPERFLEX"} |->
        CASE s = "QB" -> 1 [] s = "RB" -> 2 [] s = "WR" -> 3 [] s = "TE" -> 1
          [] s = "FLEX" -> 1 [] s = "SUPERFLEX" -> 1]

STARTER_SLOTS == [s \in {"QB", "RB", "WR", "TE", "FLEX", "SUPERFLEX"} |->
                      CASE s = "QB" -> 1 [] s = "RB" -> 2 [] s = "WR" -> 3 [] s = "TE" -> 1
                        [] s = "FLEX" -> 2 [] s = "SUPERFLEX" -> 1]

(***************************************************************************)
(* Sequence helpers (what the pandas / builtin calls do)                   *)
(***************************************************************************)
RECURSIVE SeqSum(_)
SeqSum(s) == IF s = <<>> THEN 0 ELSE Head(s) + SeqSum(Tail(s))

\* the last n rows instead of the first n (tail for head)
HeadN_Tail(s, n) == SubSeq(s, IF Len(s) < n THEN 1 ELSE Len(s) - n + 1, Len(s))

\* s[1..n] (DataFrame.head(n))
HeadN(s, n) == SubSeq(s, 1, IF Len(s) < n THEN Len(s) ELSE n)

\* the pair x = <<key, element>> inserted into t, which is sorted by key, after the
\* pairs whose key is not larger
InsertByKey(t, x) ==
    LET later == {i \in 1..Len(t) : x[1] < t[i][1]}
        k == IF later = {} THEN Len(t) + 1
             ELSE CHOOSE i \in later : \A j \in later : i <= j
    IN SubSeq(t, 1, k - 1) \o <<x>> \o SubSeq(t, k, Len(t))

\* s sorted by ascending key (key[i] is the key of s[i]); elements of equal key
\* keep their order (a stable sort)
StableSortByKey(s, key) ==
    LET S[i \in 0..Len(s)] ==
            IF i = 0 THEN <<>> ELSE InsertByKey(S[i - 1], <<key[i], s[i]>>)
    IN [i \in 1..Len(s) |-> S[Len(s)][i][2]]

\* the elements of a finite set of integers in ascending order
RECURSIVE SetToSeq(_)
SetToSeq(S) ==
    IF S = {} THEN <<>>
    ELSE LET m == CHOOSE x \in S : \A y \in S : x <= y
         IN <<m>> \o SetToSeq(S \ {m})

\* Series.median(): the middle value, or the mean of the two middle values
Median(points) ==
    LET sorted == StableSortByKey(points, points)
        n == Len(sorted)
    IN IF n % 2 = 1 THEN sorted[(n + 1) \div 2]
       ELSE (sorted[n \div 2] + sorted[n \div 2 + 1]) \div 2

\* f with key k set to v, whether or not k is a key already (dict assignment)
Put(f, k, v) == [x \in DOMAIN f \cup {k} |-> IF x = k THEN v ELSE f[x]]

(***************************************************************************)
(* load_maps                                                               *)
(***************************************************************************)
\* str.replace('DEF', 'D/ST') on the position codes of the player file
StandardPosition(position) == IF position = "DEF" THEN "D/ST" ELSE position

\* the players load_maps keeps: those with a position and a full name
NamedPlayers(data) ==
    {p \in DOMAIN data : data[p].position # "None" /\ data[p].full_name # "None"}

LoadFullPositionMap(data) ==
    [p \in NamedPlayers(data) |-> StandardPosition(data[p].position)]

LoadNameMap(data) == [p \in NamedPlayers(data) |-> data[p].full_name]

LoadIrPlayers(data) ==
    [p \in {q \in NamedPlayers(data) : data[q].injury_status = "IR"} |->
        [Player_Name |-> data[p].full_name, Position |-> StandardPosition(data[p].position)]]

\* position_map receives every player full_position_map receives, IR or not
LoadPositionMap(data) ==
    [p \in NamedPlayers(data) |-> StandardPosition(data[p].position)]

(***************************************************************************)
(* process_matchup_data, step 1: accumulate scores and latest ownership    *)
(***************************************************************************)
EmptyAcc ==
    [all_player_scores |-> <<>>, player_scores_by_week |-> <<>>,
     player_ownership_history |-> <<>>, max_week_num |-> 0]

\* every recorded score enters the median, the threshold forgotten
RecordPlayingScore_AnyScore(all_player_scores, player_id, scored) ==
    IF scored # <<>>
    THEN Append(all_player_scores, <<player_id, scored[1]>>)
    ELSE all_player_scores

\* "if points is not None and points >= MIN_PLAYING_SCORE: all_player_scores.append"
\* (scored is <<>> when players_points has no entry for the player, else <<points>>)
RecordPlayingScore(all_player_scores, player_id, scored) ==
    IF scored # <<>> /\ scored[1] >= MIN_PLAYING_SCORE
    THEN Append(all_player_scores, <<player_id, scored[1]>>)
    ELSE all_player_scores

\* the box score read last owns the player, whatever its week
UpdateOwnership_LastRead(history, player_id, roster_id, week_num) ==
    Put(history, player_id, [roster_id |-> roster_id, week |-> week_num])

\* the trade logic: the box score of the latest week seen so far owns the player
UpdateOwnership(history, player_id, roster_id, week_num) ==
    IF player_id \notin DOMAIN history \/ week_num >= history[player_id].week
    THEN Put(history, player_id, [roster_id |-> roster_id, week |-> week_num])
    ELSE history

\* the body of "for player_id in players"
ProcessPlayer(acc, fpm, week_num, box_score, player_id) ==
    IF player_id \in DOMAIN fpm /\ fpm[player_id] \in ELIGIBLE_POSITIONS
    THEN
      LET scored == IF player_id \in DOMAIN box_score.players_points
                    THEN <<box_score.players_points[player_id]>> ELSE <<>>
          by_week0 == IF player_id \notin DOMAIN acc.player_scores_by_week
                      THEN Put(acc.player_scores_by_week, player_id, <<>>)
                      ELSE acc.player_scores_by_week
          by_week == IF scored # <<>>
                     THEN [by_week0 EXCEPT ![player_id] =
                              Append(@, [week |-> week_num, points |-> scored[1]])]
                     ELSE by_week0
      IN [acc EXCEPT
            !.all_player_scores = RecordPlayingScore(@, player_id, scored),
            !.player_scores_by_week = by_week,
            !.player_ownership_history =
                UpdateOwnership(@, player_id, box_score.roster_id, week_num)]
    ELSE acc

RECURSIVE ProcessPlayers(_, _, _, _, _)
ProcessPlayers(acc, fpm, week_num, box_score, players) ==
    IF players = <<>> THEN acc
    ELSE ProcessPlayers(ProcessPlayer(acc, fpm, week_num, box_score, Head(players)),
                        fpm, week_num, box_score, Tail(players))

\* the body of "for box_score in week_data"
RECURSIVE ProcessBoxScores(_, _, _, _)
ProcessBoxScores(acc, fpm, week_num, week_data) ==
    IF week_data = <<>> THEN acc
    ELSE LET box_score == Head(week_data)
             next == IF box_score.players = <<>> THEN acc
                     ELSE ProcessPlayers(acc, fpm, week_num, box_score, box_score.players)
         IN ProcessBoxScores(next, fpm, week_num, Tail(week_data))

\* the body of "for filename in os.listdir(data_folder)"; the file of week w is
\* matchups_week_<w>.json, so the week number parsed from its name is w
ProcessFile(acc, fpm, files, week_num) ==
    LET acc1 == IF week_num > acc.max_week_num
                THEN [acc EXCEPT !.max_week_num = week_num] ELSE acc
    IN ProcessBoxScores(acc1, fpm, week_num, files[week_num])

\* listing : the file names in the order os.listdir returns them
RECURSIVE ProcessFiles(_, _, _, _)
ProcessFiles(acc, fpm, files, listing) ==
    IF listing = <<>> THEN acc
    ELSE ProcessFiles(ProcessFile(acc, fpm, files, Head(listing)), fpm, files, Tail(listing))

(***************************************************************************)
(* process_matchup_data, step 2: statistics and disqualification filters   *)
(***************************************************************************)
\* the Points of one player in all_player_scores, in the order recorded
PointsOf(all_player_scores, player_id) ==
    LET own == SelectSeq(all_player_scores, LAMBDA e : e[1] = player_id)
    IN [i \in 1..Len(own) |-> own[i][2]]

\* groupby('Player_ID')['Points'].agg(['median', 'count']): one row per player
\* that has a score, in ascending order of Player_ID
DfStats(all_player_scores) ==
    LET ids == SetToSeq({all_player_scores[i][1] : i \in 1..Len(all_player_scores)})
    IN [i \in 1..Len(ids) |->
          [Player_ID |-> ids[i],
           Median_Points |-> Median(PointsOf(all_player_scores, ids[i])),
           Score_Count |-> Len(PointsOf(all_player_scores, ids[i]))]]

\* "or" for "and"
BothBelowPlayingScore_Either(last_score, second_last_score) ==
    last_score < MIN_PLAYING_SCORE \/ second_last_score < MIN_PLAYING_SCORE

\* "if last_score < MIN_PLAYING_SCORE and second_last_score < MIN_PLAYING_SCORE"
BothBelowPlayingScore(last_score, second_last_score) ==
    last_score < MIN_PLAYING_SCORE /\ second_last_score < MIN_PLAYING_SCORE

\* exclusion check 2: the two most recent scores of the last two weeks are both
\* below MIN_PLAYING_SCORE
PlayersToExcludeZeros(player_scores_by_week, latest_week) ==
    {player_id \in DOMAIN player_scores_by_week :
        LET recent == SelectSeq(player_scores_by_week[player_id],
                             LAMBDA sc : sc.week >= latest_week - 1)
            sorted_scores == StableSortByKey(recent, [i \in 1..Len(recent) |-> -recent[i].week])
        IN /\ Len(sorted_scores) >= 2
           /\ BothBelowPlayingScore(sorted_scores[1].points, sorted_scores[2].points)}

\* exclusion check 3: a single score, once the season has reached week 4
PlayersToExcludeSingleMatchup(df_stats, max_week_num) ==
    IF max_week_num >= SINGLE_MATCHUP_MIN_WEEK
    THEN {df_stats[i].Player_ID : i \in {j \in 1..Len(df_stats) : df_stats[j].Score_Count = 1}}
    ELSE {}

\* sort_values(by=['Roster_ID', 'Median_Points'], ascending=[True, False]): a stable
\* sort by the second key followed by a stable sort by the first
SortByRosterThenMedianDescending(rows) ==
    LET by_median == StableSortByKey(rows, [i \in 1..Len(rows) |-> -rows[i].Median_Points])
    IN StableSortByKey(by_median, [i \in 1..Len(rows) |-> by_median[i].Roster_ID])

\* df_median: the rows of df_stats that survive the filters, merged with the maps
\* (a player missing from a map gets NaN there and is dropped by dropna), restricted
\* to the eligible positions and sorted by roster, then by median descending
DfMedian(df_stats, players_to_exclude_all, pmap, nmap, p2r) ==
    LET kept == SelectSeq(df_stats, LAMBDA r : r.Player_ID \notin players_to_exclude_all)
        mapped == SelectSeq(kept, LAMBDA r : r.Player_ID \in DOMAIN pmap
                                          /\ r.Player_ID \in DOMAIN p2r)
        merged == [i \in 1..Len(mapped) |->
                     [Player_ID |-> mapped[i].Player_ID,
                      Median_Points |-> mapped[i].Median_Points,
                      Position |-> pmap[mapped[i].Player_ID],
                      Player_Name |-> IF mapped[i].Player_ID \in DOMAIN nmap
                                      THEN nmap[mapped[i].Player_ID] ELSE "NaN",
                      Roster_ID |-> p2r[mapped[i].Player_ID]]]
        eligible == SelectSeq(merged, LAMBDA r : r.Position \in ELIGIBLE_POSITIONS)
    IN SortByRosterThenMedianDescending(eligible)

\* the excluded single-matchup players that have a roster and a position
ExcludedSingleMatchupList(df_stats, players_to_exclude_single_matchup, fpm, nmap, p2r) ==
    LET data == SelectSeq(df_stats, LAMBDA r : r.Player_ID \in players_to_exclude_single_matchup)
        owned == SelectSeq(data, LAMBDA r : r.Player_ID \in DOMAIN p2r
                                         /\ r.Player_ID \in DOMAIN fpm)
    IN [i \in 1..Len(owned) |->
          [Player_ID |-> owned[i].Player_ID,
           Roster_ID |-> p2r[owned[i].Player_ID],
           Position |-> fpm[owned[i].Player_ID],
           Player_Name |-> IF owned[i].Player_ID \in DOMAIN nmap
                           THEN nmap[owned[i].Player_ID] ELSE "NaN",
           Median_Points |-> owned[i].Median_Points,
           Reason |-> "Single Matchup Filter"]]

\* process_matchup_data.  A None table and an empty table are both <<>>: the caller
\* treats them alike.  pd.DataFrame(excluded_single_matchup_list) has no columns
\* when the list is empty, and dropna(subset=['Roster_ID', 'Position']) then raises
\* KeyError: nothing is returned (raised).
process_matchup_data(pmap, nmap, fpm, files, listing) ==
    LET acc == ProcessFiles(EmptyAcc, fpm, files, listing)
        history == acc.player_ownership_history
        p2r == [p \in DOMAIN history |-> history[p].roster_id]
        df_stats == DfStats(acc.all_player_scores)
        zeros == PlayersToExcludeZeros(acc.player_scores_by_week, acc.max_week_num)
        single == PlayersToExcludeSingleMatchup(df_stats, acc.max_week_num)
        excluded_list == ExcludedSingleMatchupList(df_stats, single, fpm, nmap, p2r)
        nothing == [raised |-> FALSE, df_median |-> <<>>,
                    df_excluded_single_matchup |-> <<>>, player_to_roster |-> <<>>]
    IN IF DOMAIN history = {} THEN nothing
       ELSE IF acc.all_player_scores = <<>>
       THEN [nothing EXCEPT !.player_to_roster = p2r]
       ELSE IF excluded_list = <<>>
       THEN [nothing EXCEPT !.raised = TRUE]
       ELSE [raised |-> FALSE,
             df_median |-> DfMedian(df_stats, zeros \cup single, pmap, nmap, p2r),
             df_excluded_single_matchup |-> excluded_list,
             player_to_roster |-> p2r]

(***************************************************************************)
(* select_optimal_lineup                                                   *)
(***************************************************************************)
IdsOf(rows) == {rows[i].Player_ID : i \in 1..Len(rows)}

LineupRow(roster_id, slot, player) ==
    [Roster_ID |-> roster_id, Position |-> slot, Inherent_Position |-> player.Position,
     Player_Name |-> player.Player_Name, Median_Points |-> player.Median_Points,
     Player_ID |-> player.Player_ID]

\* available_pool[available_pool['Position'] == pos].head(count), as lineup rows
MandatoryRows(roster_id, available_pool, pos) ==
    LET pos_players == HeadN(SelectSeq(available_pool, LAMBDA r : r.Position = pos),
                             MANDATORY_SLOTS[pos])
    IN [i \in 1..Len(pos_players) |-> LineupRow(roster_id, pos, pos_players[i])]

\* the body of "for roster_id, team_df in df_median.groupby('Roster_ID')"
SelectTeam(roster_id, team_df) ==
    LET M[k \in 0..Len(MANDATORY_ORDER)] ==
            IF k = 0 THEN <<>>
            ELSE M[k - 1] \o MandatoryRows(roster_id, team_df, MANDATORY_ORDER[k])
        mandatory == M[Len(MANDATORY_ORDER)]
        pool1 == SelectSeq(team_df, LAMBDA r : r.Player_ID \notin IdsOf(mandatory))
        flex_pool == HeadN(SelectSeq(pool1, LAMBDA r : r.Position \in FLEX_ELIGIBLE),
                           STARTER_SLOTS["FLEX"])
        flex == [i \in 1..Len(flex_pool) |-> LineupRow(roster_id, "FLEX", flex_pool[i])]
        pool2 == SelectSeq(pool1, LAMBDA r : r.Player_ID \notin IdsOf(mandatory) \cup IdsOf(flex))
        sf_pool == HeadN(SelectSeq(pool2, LAMBDA r : r.Position \in SUPERFLEX_ELIGIBLE),
                         STARTER_SLOTS["SUPERFLEX"])
        sf == [i \in 1..Len(sf_pool) |-> LineupRow(roster_id, "SUPERFLEX", sf_pool[i])]
        selected_ids == IdsOf(mandatory) \cup IdsOf(flex) \cup IdsOf(sf)
        remaining_df == SelectSeq(pool2, LAMBDA r : r.Player_ID \notin selected_ids)
    IN [lineup |-> mandatory \o flex \o sf,
        remaining |-> [i \in 1..Len(remaining_df) |->
                         [Roster_ID |-> roster_id,
                          Position |-> remaining_df[i].Position,
                          Player_Name |-> remaining_df[i].Player_Name,
                          Median_Points |-> remaining_df[i].Median_Points,
                          Player_ID |-> remaining_df[i].Player_ID]]]

\* the roster ids of a table in groupby order (ascending)
GroupKeys(df) == SetToSeq({df[i].Roster_ID : i \in 1..Len(df)})

TeamOf(df, roster_id) == SelectSeq(df, LAMBDA r : r.Roster_ID = roster_id)

select_optimal_lineup(df) ==
    LET keys == GroupKeys(df)
        T[k \in 0..Len(keys)] ==
            IF k = 0 THEN [lineup |-> <<>>, remaining |-> <<>>]
            ELSE LET team == SelectTeam(keys[k], TeamOf(df, keys[k]))
                 IN [lineup |-> T[k - 1].lineup \o team.lineup,
                     remaining |-> T[k - 1].remaining \o team.remaining]
    IN T[Len(keys)]

(***************************************************************************)
(* format_output_csv                                                       *)
(***************************************************************************)
\* df_median_scores.set_index('Player_ID')['Median_Points'].to_dict()
ScoreLookup(df_median_scores) ==
    [p \in IdsOf(df_median_scores) |->
        df_median_scores[CHOOSE i \in 1..Len(df_median_scores) :
            /\ df_median_scores[i].Player_ID = p
            /\ \A j \in 1..Len(df_median_scores) :
                  df_median_scores[j].Player_ID = p => j <= i].Median_Points]

\* step 1a: the IR disqualified list, with the score looked up in df_median_scores
\* and 0.0 when the player is not found there
IrPlayersList(ir_players_dict, p2r, df_median_scores) ==
    LET ids == SetToSeq({p \in DOMAIN ir_players_dict : p \in DOMAIN p2r})
        score_lookup == ScoreLookup(df_median_scores)
    IN [i \in 1..Len(ids) |->
          [Player_ID |-> ids[i],
           Roster_ID |-> p2r[ids[i]],
           Position |-> ir_players_dict[ids[i]].Position,
           Player_Name |-> ir_players_dict[ids[i]].Player_Name,
           Median_Points |-> IF ids[i] \in DOMAIN score_lookup
                             THEN score_lookup[ids[i]] ELSE 0,
           Reason |-> "IR Status"]]

category_order == <<"QB", "RB", "WR", "TE", "FLEX", "SUPERFLEX">>

backup_positions == <<"QB", "RB", "WR", "TE">>

\* np.nan in a cell of a frame
NaN == "NaN"

\* the default cutoff -1.0, in units of 0.05 point
NoCutoff == -20

\* the code of a value in pd.Categorical(values, categories=categories): a value
\* outside the categories is NaN, which sort_values puts last
CategoryCode(categories, value) ==
    IF \E i \in DOMAIN categories : categories[i] = value
    THEN CHOOSE i \in DOMAIN categories : categories[i] = value
    ELSE Len(categories) + 1

\* rows sorted by (key1, key2) ascending, rows of equal keys keeping their order
SortByTwoKeys(rows, key1, key2) ==
    LET by_second == StableSortByKey([i \in 1..Len(rows) |-> <<key1[i], rows[i]>>], key2)
        by_first == StableSortByKey(by_second, [i \in 1..Len(rows) |-> by_second[i][1]])
    IN [i \in 1..Len(rows) |-> by_first[i][2]]

\* step 1: the 'Team Name' that the left merge with roster_map gives the rows of a
\* roster (the keys of roster_map are the roster ids as strings)
TeamName(roster_map, roster_id) ==
    IF ToString(roster_id) \in DOMAIN roster_map
    THEN roster_map[ToString(roster_id)] ELSE <<NaN>>

\* df_optimal.groupby('Roster_ID')['Median_Points'].sum()
TeamTotal(optimal, roster_id) ==
    LET team_df == TeamOf(optimal, roster_id)
    IN SeqSum([i \in 1..Len(team_df) |-> team_df[i].Median_Points])

\* the roster ids by ascending total
SortedRosterIds_Ascending(optimal) ==
    LET keys == GroupKeys(optimal)
    IN {l \in [1..Len(keys) -> {keys[i] : i \in 1..Len(keys)}] :
          /\ \A i, j \in 1..Len(keys) : l[i] = l[j] => i = j
          /\ \A i \in 1..(Len(keys) - 1) :
                TeamTotal(optimal, l[i]) <= TeamTotal(optimal, l[i + 1])}

\* sorted_roster_ids: the roster ids after sort_values(by='Total_Median_Points',
\* ascending=False); the order of teams of equal total is whatever the sort leaves
SortedRosterIds(optimal) ==
    LET keys == GroupKeys(optimal)
    IN {l \in [1..Len(keys) -> {keys[i] : i \in 1..Len(keys)}] :
          /\ \A i, j \in 1..Len(keys) : l[i] = l[j] => i = j
          /\ \A i \in 1..(Len(keys) - 1) :
                TeamTotal(optimal, l[i]) >= TeamTotal(optimal, l[i + 1])}

\* team_optimal[['Inherent_Position', 'Median_Points']]: the rows of the roster with
\* the index labels they have in df_optimal (0, 1, 2, ... over the whole table)
TeamOptimalForCutoff(optimal, roster_id) ==
    LET labelled == [i \in 1..Len(optimal) |->
                       [label |-> i - 1, Roster_ID |-> optimal[i].Roster_ID,
                        Inherent_Position |-> optimal[i].Inherent_Position,
                        Median_Points |-> optimal[i].Median_Points]]
        team_optimal == SelectSeq(labelled, LAMBDA r : r.Roster_ID = roster_id)
    IN [i \in 1..Len(team_optimal) |->
          [label |-> team_optimal[i].label,
           Inherent_Position |-> team_optimal[i].Inherent_Position,
           Median_Points |-> team_optimal[i].Median_Points]]

\* frame.loc[new_index] = [position, median]: the row of that label is replaced, and
\* a row is added when no row has the label
SetLoc(frame, new_index, position, median) ==
    LET row == [label |-> new_index, Inherent_Position |-> position,
                Median_Points |-> median]
    IN IF \E i \in 1..Len(frame) : frame[i].label = new_index
       THEN [i \in 1..Len(frame) |-> IF frame[i].label = new_index THEN row ELSE frame[i]]
       ELSE Append(frame, row)

\* rows[rows['Position'] == pos].head(1)
TopBackup(rows, pos) == HeadN(SelectSeq(rows, LAMBDA r : r.Position = pos), 1)

\* relevant_player_data_for_cutoff after the loop over backup_positions
RelevantPlayerDataForCutoff(optimal, remaining, roster_id) ==
    LET team_remaining == TeamOf(remaining, roster_id)
        R[k \in 0..Len(backup_positions)] ==
            IF k = 0 THEN TeamOptimalForCutoff(optimal, roster_id)
            ELSE LET top_backup == TopBackup(team_remaining, backup_positions[k])
                 IN IF top_backup = <<>> THEN R[k - 1]
                    ELSE SetLoc(R[k - 1], Len(R[k - 1]), top_backup[1].Position,
                                top_backup[1].Median_Points)
    IN R[Len(backup_positions)]

\* min(scores) of a non-empty list
MinScore(frame) ==
    CHOOSE m \in {frame[i].Median_Points : i \in 1..Len(frame)} :
        \A i \in 1..Len(frame) : m <= frame[i].Median_Points

\* step 2: overall_cutoff and positional_cutoffs of a roster
Cutoffs(optimal, remaining, roster_id) ==
    LET frame == RelevantPlayerDataForCutoff(optimal, remaining, roster_id)
        with_scores == {pos \in {backup_positions[k] : k \in DOMAIN backup_positions} :
                           \E i \in 1..Len(frame) : frame[i].Inherent_Position = pos}
    IN [overall |-> IF frame = <<>> THEN NoCutoff ELSE MinScore(frame),
        positional |-> [pos \in with_scores |->
                           MinScore(SelectSeq(frame, LAMBDA r : r.Inherent_Position = pos))]]

\* the five columns of a disqualified list
DisqualifiedColumns(rows) ==
    [i \in 1..Len(rows) |->
        [Roster_ID |-> rows[i].Roster_ID, Position |-> rows[i].Position,
         Player_Name |-> rows[i].Player_Name, Median_Points |-> rows[i].Median_Points,
         Reason |-> rows[i].Reason]]

\* final_cutoff of a disqualified row, given the cutoffs of the rosters of
\* sorted_roster_ids
FinalCutoff(row, cutoffs) ==
    LET overall_cutoff == IF row.Roster_ID \in DOMAIN cutoffs
                          THEN cutoffs[row.Roster_ID].overall ELSE NoCutoff
        positional_floor == IF row.Roster_ID \in DOMAIN cutoffs
                               /\ row.Position \in DOMAIN cutoffs[row.Roster_ID].positional
                            THEN cutoffs[row.Roster_ID].positional[row.Position]
                            ELSE overall_cutoff
    IN IF overall_cutoff >= positional_floor THEN overall_cutoff ELSE positional_floor

\* step 3: df_excluded_filtered
ExcludedFiltered(df_excluded_ir, excluded_single_matchup, cutoffs) ==
    SelectSeq(DisqualifiedColumns(df_excluded_ir) \o DisqualifiedColumns(excluded_single_matchup),
              LAMBDA row : row.Median_Points >= FinalCutoff(row, cutoffs))

\* step 4.1: the lineup rows of a team, sorted by category and median descending,
\* numbered inside each category and sorted by category and number
DetailRows(team_df, team_name) ==
    LET rows == [i \in 1..Len(team_df) |->
                   [Team_Name |-> team_name, Position |-> team_df[i].Position,
                    Player_Name |-> <<team_df[i].Player_Name>>,
                    Median_Points |-> team_df[i].Median_Points]]
        sorted == SortByTwoKeys(rows,
                     [i \in 1..Len(rows) |-> CategoryCode(category_order, rows[i].Position)],
                     [i \in 1..Len(rows) |-> -rows[i].Median_Points])
        Slot_Index == [i \in 1..Len(sorted) |->
                         Cardinality({j \in 1..(i - 1) : sorted[j].Position = sorted[i].Position})]
    IN SortByTwoKeys(sorted,
          [i \in 1..Len(sorted) |-> CategoryCode(category_order, sorted[i].Position)],
          Slot_Index)

\* step 4.2: the summary row
SummaryRow(team_df, team_name) ==
    [Team_Name |-> team_name, Position |-> "TOTAL", Player_Name |-> <<"">>,
     Median_Points |-> SeqSum([i \in 1..Len(team_df) |-> team_df[i].Median_Points])]

\* f'BACKUP {pos}'
BackupLabel(pos) ==
    CASE pos = "QB" -> "BACKUP QB" [] pos = "RB" -> "BACKUP RB"
      [] pos = "WR" -> "BACKUP WR" [] pos = "TE" -> "BACKUP TE"

\* step 4.3: the top remaining player of the team at each backup position
BackupRows(backup_df, team_name) ==
    LET B[k \in 0..Len(backup_positions)] ==
            IF k = 0 THEN <<>>
            ELSE LET top_backup == TopBackup(backup_df, backup_positions[k])
                 IN IF top_backup = <<>> THEN B[k - 1]
                    ELSE Append(B[k - 1],
                                [Team_Name |-> team_name,
                                 Position |-> BackupLabel(backup_positions[k]),
                                 Player_Name |-> <<top_backup[1].Player_Name>>,
                                 Median_Points |-> top_backup[1].Median_Points])
    IN B[Len(backup_positions)]

\* player["Reason"].upper()
Upper(reason) ==
    CASE reason = "IR Status" -> "IR STATUS"
      [] reason = "Single Matchup Filter" -> "SINGLE MATCHUP FILTER"

\* the disqualified players of the team by position only
DisqualifiedRows_ByPosition(team_excluded, team_name) ==
    LET disqualified_list ==
            StableSortByKey(team_excluded,
               [i \in 1..Len(team_excluded) |->
                   CategoryCode(backup_positions, team_excluded[i].Position)])
    IN [i \in 1..Len(disqualified_list) |->
          [Team_Name |-> team_name,
           Position |-> Upper(disqualified_list[i].Reason),
           Player_Name |-> <<disqualified_list[i].Player_Name, " (",
                             disqualified_list[i].Position, ")">>,
           Median_Points |-> disqualified_list[i].Median_Points]]

\* step 4.4: the filtered disqualified players of the team, by reason, then position
DisqualifiedRows(team_excluded, team_name) ==
    LET disqualified_list ==
            SortByTwoKeys(team_excluded,
               [i \in 1..Len(team_excluded) |->
                   IF team_excluded[i].Reason = "IR Status" THEN 0 ELSE 1],
               [i \in 1..Len(team_excluded) |->
                   CategoryCode(backup_positions, team_excluded[i].Position)])
    IN [i \in 1..Len(disqualified_list) |->
          [Team_Name |-> team_name,
           Position |-> Upper(disqualified_list[i].Reason),
           Player_Name |-> <<disqualified_list[i].Player_Name, " (",
                             disqualified_list[i].Position, ")">>,
           Median_Points |-> disqualified_list[i].Median_Points]]

\* the empty row that closes a team
SeparatorRow ==
    [Team_Name |-> <<"">>, Position |-> NaN, Player_Name |-> <<NaN>>, Median_Points |-> NaN]

\* the body of "for roster_id in sorted_roster_ids" of step 4
TeamBlock(optimal, remaining, roster_map, df_excluded_filtered, roster_id) ==
    LET team_df == TeamOf(optimal, roster_id)
        team_name == TeamName(roster_map, roster_id)
    IN IF team_df = <<>> THEN <<>>
       ELSE DetailRows(team_df, team_name)
            \o <<SummaryRow(team_df, team_name)>>
            \o BackupRows(TeamOf(remaining, roster_id), team_name)
            \o DisqualifiedRows(TeamOf(df_excluded_filtered, roster_id), team_name)
            \o <<SeparatorRow>>

\* format_output_csv once sorted_roster_ids and the IR list are known: the rows of
\* the CSV file
FinalOutput(optimal, remaining, roster_map, df_excluded_ir, excluded_single_matchup, ids) ==
    LET cutoffs == [r \in {ids[k] : k \in 1..Len(ids)} |-> Cutoffs(optimal, remaining, r)]
        df_excluded_filtered == ExcludedFiltered(df_excluded_ir, excluded_single_matchup, cutoffs)
        F[k \in 0..Len(ids)] ==
            IF k = 0 THEN <<>>
            ELSE F[k - 1] \o TeamBlock(optimal, remaining, roster_map,
                                       df_excluded_filtered, ids[k])
    IN F[Len(ids)]

(***************************************************************************)
(* The files the analysis reads                                            *)
(***************************************************************************)
\* The league of the model.  Player 1 is a quarterback on injured reserve with any
\* weekly history.  The other players are fixed: 2, 3 and 4 are quarterbacks that
\* roster 1 lists in every file, with 0.3, 0.3 and 0.1 point; 5 is a running back
\* and 6 a defence on injured reserve, listed in the latest file only, by roster 1
\* and by roster 2; 7 is an entry without a position that no box score lists.
PlayerDetails(p) ==
    CASE p = 1 -> [position |-> "QB", full_name |-> "Name", injury_status |-> "IR"]
      [] p \in {2, 3, 4} -> [position |-> "QB", full_name |-> "Name", injury_status |-> "None"]
      [] p = 5 -> [position |-> "RB", full_name |-> "Name", injury_status |-> "None"]
      [] p = 6 -> [position |-> "DEF", full_name |-> "Name", injury_status |-> "IR"]
      [] p = 7 -> [position |-> "None", full_name |-> "Name", injury_status |-> "None"]

\* what a weekly file says of one player: <<>> when no box score lists the player,
\* else <<roster, <<>>>> (listed, no players_points entry) or <<roster, <<points>>>>
FixedListing(p, w, latest) ==
    CASE p \in {2, 3} -> <<1, <<6>>>>
      [] p = 4 -> <<1, <<2>>>>
      [] p = 5 -> IF w = latest THEN <<1, <<6>>>> ELSE <<>>
      [] p = 6 -> IF w = latest THEN <<2, <<6>>>> ELSE <<>>
      [] p = 7 -> <<>>

\* what a weekly file can say of player 1
Listings ==
    {<<>>} \cup {<<1, pts>> : pts \in {<<>>} \cup {<<v>> : v \in PointValues}}
           \cup {<<2, <<0>>>>, <<2, <<6>>>>}

\* the box score of roster r in a week, given what the file says of each player
BoxScore(r, said) ==
    [roster_id |-> r,
     players |-> SetToSeq({p \in Players : said[p] # <<>> /\ said[p][1] = r}),
     players_points |->
        [p \in {q \in Players : said[q] # <<>> /\ said[q][1] = r /\ said[q][2] # <<>>} |->
            said[p][2][1]]]

\* a weekly file: one box score per roster; a player is on one roster at most
WeekData(said) ==
    LET rs == SetToSeq(Rosters) IN [i \in 1..Len(rs) |-> BoxScore(rs[i], said)]

\* the week numbers of the files the folder can hold: from the last week in which
\* a single score does not disqualify to the current week
WeekNumbers == (SINGLE_MATCHUP_MIN_WEEK - 1)..CURRENT_WEEK

\* the orders in which os.listdir can return the files
Listing(files) ==
    {l \in [1..Cardinality(DOMAIN files) -> DOMAIN files] :
        \A i, j \in DOMAIN l : l[i] = l[j] => i = j}

(***************************************************************************)
(* optimal_lineup_analysis.py, the main script                             *)
(***************************************************************************)
InitAnalysis ==
    /\ pc = "start"
    /\ player_data = [p \in Players |-> PlayerDetails(p)]
    /\ \E weeks \in SUBSET WeekNumbers :
         \E said \in [weeks -> Listings] :
            week_files =
               [w \in weeks |->
                  WeekData([p \in Players |->
                              IF p = 1 THEN said[w]
                              ELSE FixedListing(p, w, CHOOSE l \in weeks :
                                                         \A v \in weeks : v <= l)])]
    /\ position_map = <<>> /\ full_position_map = <<>> /\ name_map = <<>>
    /\ ir_players = <<>>
    /\ df_median = <<>> /\ df_excluded_single_matchup = <<>> /\ player_to_roster = <<>>
    /\ df_optimal = <<>> /\ df_remaining = <<>> /\ FormatIdle
    /\ week = 0 /\ requested = <<>> /\ saved = {} /\ failed = {}
    /\ roster_name_map = [id \in {"1"} |-> <<"team", 1>>]
    /\ rosters_data = <<>> /\ users_data = <<>> /\ YtdIdle /\ BenchmarkIdle

LoadMaps ==
    /\ pc = "start"
    /\ position_map' = LoadPositionMap(player_data)
    /\ full_position_map' = LoadFullPositionMap(player_data)
    /\ name_map' = LoadNameMap(player_data)
    /\ ir_players' = LoadIrPlayers(player_data)
    /\ pc' = "loaded"
    /\ UNCHANGED <<player_data, week_files, df_median, df_excluded_single_matchup,
                   player_to_roster, df_optimal, df_remaining, formatVars,
                   week, requested, saved, failed, reportVars>>

\* an exception of process_matchup_data ends the script
ProcessMatchupData ==
    /\ pc = "loaded"
    /\ \E listing \in Listing(week_files) :
         \E result \in {process_matchup_data(position_map, name_map, full_position_map,
                                            week_files, listing)} :
            /\ df_median' = result.df_median
            /\ df_excluded_single_matchup' = result.df_excluded_single_matchup
            /\ player_to_roster' = result.player_to_roster
            /\ pc' = IF result.raised THEN "process_raised" ELSE "processed"
    /\ UNCHANGED <<player_data, week_files, position_map, full_position_map, name_map,
                   ir_players, df_optimal, df_remaining, formatVars, week, requested, saved, failed, reportVars>>

\* "if df_median_scores is not None and not df_median_scores.empty"
SelectOptimalLineup ==
    /\ pc = "processed"
    /\ df_median # <<>>
    /\ \E result \in {select_optimal_lineup(df_median)} :
          /\ df_optimal' = result.lineup
          /\ df_remaining' = result.remaining
    /\ pc' = "selected"
    /\ UNCHANGED <<player_data, week_files, position_map, full_position_map, name_map,
                   ir_players, df_median, df_excluded_single_matchup, player_to_roster,
                   formatVars, week, requested, saved, failed, reportVars>>

\* the else branch: no active players remain, nothing is written
NoMedianScores ==
    /\ pc = "processed"
    /\ df_median = <<>>
    /\ pc' = "done"
    /\ UNCHANGED <<player_data, week_files, position_map, full_position_map, name_map,
                   ir_players, df_median, df_excluded_single_matchup, player_to_roster,
                   df_optimal, df_remaining, formatVars, week, requested, saved, failed, reportVars>>

\* "if not df_optimal_lineup.empty": a non-empty df_median always yields a lineup.
\* When no team has a remaining player df_remaining has no columns, and
\* df_remaining['Roster_ID'] raises KeyError in the cutoff loop: nothing is written.
FormatOutputCsv ==
    /\ pc = "selected"
    /\ df_optimal # <<>>
    /\ IF df_remaining = <<>>
       THEN pc' = "format_raised" /\ UNCHANGED formatVars
       ELSE /\ \E ids \in SortedRosterIds(df_optimal) :
                 \E df_excluded_ir \in {IrPlayersList(ir_players, player_to_roster, df_median)} :
                    /\ sorted_roster_ids' = ids
                    /\ ir_rows' = df_excluded_ir
                    /\ final_output' = FinalOutput(df_optimal, df_remaining, roster_name_map,
                                                   df_excluded_ir, df_excluded_single_matchup,
                                                   ids)
            /\ pc' = "done"
    /\ UNCHANGED <<player_data, week_files, position_map, full_position_map, name_map,
                   ir_players, df_median, df_excluded_single_matchup, player_to_roster,
                   df_optimal, df_remaining, week, requested, saved, failed, reportVars>>

Next == LoadMaps \/ ProcessMatchupData \/ SelectOptimalLineup \/ NoMedianScores
        \/ FormatOutputCsv

Spec == InitAnalysis /\ [][Next]_vars

(***************************************************************************)
(* select_optimal_lineup on any median table                               *)
(***************************************************************************)
\* the keys (roster, median) of a table sorted by roster, then by median descending
SortedKeys(n) ==
    {k \in [1..n -> Rosters \X MedianValues] :
        \A i \in 1..(n - 1) :
            \/ k[i][1] < k[i + 1][1]
            \/ k[i][1] = k[i + 1][1] /\ k[i][2] >= k[i + 1][2]}

\* a table process_matchup_data can return: rows of eligible positions in sorted
\* order; the player of row i has Player_ID i
MedianTable(key, pos) ==
    [i \in DOMAIN key |-> [Player_ID |-> i, Median_Points |-> key[i][2],
                           Position |-> pos[i], Player_Name |-> "Name",
                           Roster_ID |-> key[i][1]]]

InitLineup ==
    /\ pc = "processed"
    /\ \E n \in 1..MaxRows :
         \E key \in SortedKeys(n) :
            \E pos \in [1..n -> ELIGIBLE_POSITIONS] :
               /\ df_median = MedianTable(key, pos)
               /\ player_to_roster = [p \in 1..n |-> key[p][1]]
    /\ player_data = <<>> /\ week_files = <<>>
    /\ position_map = <<>> /\ full_position_map = <<>> /\ name_map = <<>>
    /\ ir_players = <<>>
    /\ df_excluded_single_matchup = <<>>
    /\ df_optimal = <<>> /\ df_remaining = <<>> /\ FormatIdle
    /\ week = 0 /\ requested = <<>> /\ saved = {} /\ failed = {}
    /\ ReportsIdle

SpecLineup == InitLineup /\ [][SelectOptimalLineup]_vars

(***************************************************************************)
(* select_optimal_lineup and format_output_csv on any median table         *)
(***************************************************************************)
\* the positions of the players of these tables
FormatPositions == {"QB", "TE"}

\* What process_matchup_data can return when it returns a table: a median table,
\* here of quarterbacks and tight ends, and a single-matchup list that is not
\* empty, here one player who is in no table.  At most one player of the table is on
\* injured reserve.  Among players of equal roster and median the quarterbacks have
\* the smaller ids.
InitFormat ==
    /\ pc = "processed"
    /\ \E n \in 1..MaxFormatRows :
         \E key \in SortedKeys(n) :
            \E pos \in {q \in [1..n -> FormatPositions] :
                            \A i \in 1..(n - 1) :
                               key[i] = key[i + 1] => ~(q[i] = "TE" /\ q[i + 1] = "QB")} :
               \E ir \in 0..n :
                  \E single \in Rosters \X FormatPositions \X MedianValues :
                     /\ df_median = MedianTable(key, pos)
                     /\ ir_players = [p \in {ir} \ {0} |->
                                        [Player_Name |-> "Name", Position |-> pos[p]]]
                     /\ df_excluded_single_matchup =
                           <<[Player_ID |-> n + 1, Roster_ID |-> single[1],
                              Position |-> single[2], Player_Name |-> "Name",
                              Median_Points |-> single[3],
                              Reason |-> "Single Matchup Filter"]>>
                     /\ player_to_roster =
                           [p \in 1..(n + 1) |-> IF p <= n THEN key[p][1] ELSE single[1]]
    /\ roster_name_map = [id \in {"1"} |-> <<"team", 1>>]
    /\ rosters_data = <<>> /\ users_data = <<>> /\ YtdIdle /\ BenchmarkIdle
    /\ player_data = <<>> /\ week_files = <<>>
    /\ position_map = <<>> /\ full_position_map = <<>> /\ name_map = <<>>
    /\ df_optimal = <<>> /\ df_remaining = <<>> /\ FormatIdle
    /\ week = 0 /\ requested = <<>> /\ saved = {} /\ failed = {}

NextFormat == SelectOptimalLineup \/ FormatOutputCsv

SpecFormat == InitFormat /\ [][NextFormat]_vars

(***************************************************************************)
(* get_matchups.py : fetch_ytd_matchups                                    *)
(*                                                                         *)
(* A week's request either succeeds, and its file is written, or raises    *)
(* RequestException (no connection, a timeout, an HTTP error status).  The *)
(* body of a successful response is taken to be JSON, and writing a file   *)
(* of the output directory, once the directory exists, to succeed.         *)
(***************************************************************************)
InitFetch ==
    /\ pc = "fetch_start"
    /\ week = 0 /\ requested = <<>> /\ saved = {} /\ failed = {}
    /\ ReportsIdle
    /\ player_data = <<>> /\ week_files = <<>>
    /\ position_map = <<>> /\ full_position_map = <<>> /\ name_map = <<>>
    /\ ir_players = <<>>
    /\ df_median = <<>> /\ df_excluded_single_matchup = <<>> /\ player_to_roster = <<>>
    /\ df_optimal = <<>> /\ df_remaining = <<>> /\ FormatIdle

\* the LEAGUE_ID check and the creation of the output directory; range(1,
\* CURRENT_WEEK + 1) starts at 1
FetchStart ==
    /\ pc = "fetch_start"
    /\ IF LEAGUE_ID = "YOUR_LEAGUE_ID_HERE"
       THEN pc' = "fetched" /\ week' = week
       ELSE pc' = "fetching" /\ week' = 1
    /\ UNCHANGED <<player_data, week_files, position_map, full_position_map, name_map,
                   ir_players, df_median, df_excluded_single_matchup, player_to_roster,
                   df_optimal, df_remaining, formatVars, requested, saved, failed, reportVars>>

\* the loop body when the request succeeds: the file of the week is written
FetchWeekSaved ==
    /\ pc = "fetching"
    /\ week <= CURRENT_WEEK
    /\ requested' = Append(requested, week)
    /\ saved' = saved \cup {week}
    /\ week' = week + 1
    /\ UNCHANGED <<pc, player_data, week_files, position_map, full_position_map, name_map,
                   ir_players, df_median, df_excluded_single_matchup, player_to_roster,
                   df_optimal, df_remaining, formatVars, failed, reportVars>>

\* "break" for "continue"
FetchWeekFailed_Break ==
    /\ pc = "fetching"
    /\ week <= CURRENT_WEEK
    /\ requested' = Append(requested, week)
    /\ failed' = failed \cup {week}
    /\ pc' = "fetched"
    /\ UNCHANGED <<player_data, week_files, position_map, full_position_map, name_map,
                   ir_players, df_median, df_excluded_single_matchup, player_to_roster,
                   df_optimal, df_remaining, formatVars, week, saved, reportVars>>

\* the loop body when the request raises RequestException: "continue"
FetchWeekFailed ==
    /\ pc = "fetching"
    /\ week <= CURRENT_WEEK
    /\ requested' = Append(requested, week)
    /\ failed' = failed \cup {week}
    /\ week' = week + 1
    /\ UNCHANGED <<pc, player_data, week_files, position_map, full_position_map, name_map,
                   ir_players, df_median, df_excluded_single_matchup, player_to_roster,
                   df_optimal, df_remaining, formatVars, saved, reportVars>>

\* the range is exhausted: "Data pull complete!"
FetchComplete ==
    /\ pc = "fetching"
    /\ week > CURRENT_WEEK
    /\ pc' = "fetched"
    /\ UNCHANGED <<player_data, week_files, position_map, full_position_map, name_map,
                   ir_players, df_median, df_excluded_single_matchup, player_to_roster,
                   df_optimal, df_remaining, formatVars, week, requested, saved, failed, reportVars>>

NextFetch == FetchStart \/ FetchWeekSaved \/ FetchWeekFailed \/ FetchComplete

SpecFetch == InitFetch /\ [][NextFetch]_vars

(***************************************************************************)
(* get_roster_map.py : fetch_roster_user_map                               *)
(*                                                                         *)
(* A JSON object is a function on the keys it has.  None is <<>>, the      *)
(* empty string <<"">>, any other string a tuple of its pieces.  The API   *)
(* returns users of distinct user_id whose metadata, when present, is an   *)
(* object, and rosters of distinct roster_id.                              *)
(***************************************************************************)
None == <<>>

EmptyString == <<"">>

\* dict.get(key) and dict.get(key, default)
Get(d, key) == IF key \in DOMAIN d THEN d[key] ELSE None

GetOr(d, key, default) == IF key \in DOMAIN d THEN d[key] ELSE default

\* "a or b" on strings and None
Or(a, b) == IF a = None \/ a = EmptyString THEN b ELSE a

\* the display name first, the custom team name only without one
TeamNameOf_DisplayFirst(user) ==
    Or(Get(user, "display_name"), Get(GetOr(user, "metadata", <<>>), "team_name"))

\* user.get('metadata', {}).get('team_name') or user.get('display_name')
TeamNameOf(user) ==
    Or(Get(GetOr(user, "metadata", <<>>), "team_name"), Get(user, "display_name"))

\* step 3: owner id -> name; a later user of the same id replaces an earlier one
UserNameMap(users) ==
    LET M[i \in 0..Len(users)] ==
            IF i = 0 THEN <<>> ELSE Put(M[i - 1], users[i].user_id, TeamNameOf(users[i]))
    IN M[Len(users)]

\* f"Roster {roster_id} (No Owner)"
NoOwnerName(roster_id) == <<"Roster ", ToString(roster_id), " (No Owner)">>

\* the body of "for roster in rosters_data"
RosterName(roster, user_name_map) ==
    LET owner_id == Get(roster, "owner_id")
    IN IF owner_id # None /\ owner_id[1] \in DOMAIN user_name_map
       THEN user_name_map[owner_id[1]]
       ELSE NoOwnerName(roster.roster_id)

\* step 4: str(roster_id) -> name
RosterNameMap(rosters, users) ==
    LET user_name_map == UserNameMap(users)
        M[i \in 0..Len(rosters)] ==
            IF i = 0 THEN <<>>
            ELSE Put(M[i - 1], ToString(rosters[i].roster_id),
                     RosterName(rosters[i], user_name_map))
    IN M[Len(rosters)]

\* what the API can say of the user u: with or without metadata, a team_name in it
\* or none or an empty one, with or without a display_name
UserObjects(u) ==
    {[k \in {"user_id"} \cup keys |->
         CASE k = "user_id" -> u
           [] k = "metadata" -> metadata
           [] k = "display_name" -> <<"display", u>>] :
       keys \in SUBSET {"metadata", "display_name"},
       metadata \in {<<>>, [team_name |-> EmptyString], [team_name |-> <<"team", u>>]}}

\* what the API can say of the roster r: no owner_id, a null one, the id of a user
\* or an id that is no user's (an owner_id is kept as <<id>>)
RosterObjects(r) ==
    {[roster_id |-> r]} \cup
    {[roster_id |-> r, owner_id |-> o] : o \in {None} \cup {<<u>> : u \in 1..(MaxUsers + 1)}}

InitRosterMap ==
    /\ pc = "map_start"
    /\ \E n \in 0..MaxUsers :
          \E us \in [1..n -> UNION {UserObjects(u) : u \in 1..MaxUsers}] :
             /\ \A i \in 1..n : us[i].user_id = i
             /\ users_data = us
    /\ \E n \in 0..MaxLeagueRosters :
          \E rs \in [1..n -> UNION {RosterObjects(r) : r \in 1..MaxLeagueRosters}] :
             /\ \A i \in 1..n : rs[i].roster_id = i
             /\ rosters_data = rs
    /\ roster_name_map = <<>>
    /\ YtdIdle /\ BenchmarkIdle
    /\ week = 0 /\ requested = <<>> /\ saved = {} /\ failed = {}
    /\ player_data = <<>> /\ week_files = <<>>
    /\ position_map = <<>> /\ full_position_map = <<>> /\ name_map = <<>>
    /\ ir_players = <<>>
    /\ df_median = <<>> /\ df_excluded_single_matchup = <<>> /\ player_to_roster = <<>>
    /\ df_optimal = <<>> /\ df_remaining = <<>> /\ FormatIdle

\* both requests succeed: the map is built, written and returned
FetchRosterUserMap ==
    /\ pc = "map_start"
    /\ LEAGUE_ID # "YOUR_LEAGUE_ID_HERE"
    /\ roster_name_map' = RosterNameMap(rosters_data, users_data)
    /\ pc' = "map_saved"
    /\ UNCHANGED <<player_data, week_files, position_map, full_position_map, name_map,
                   ir_players, df_median, df_excluded_single_matchup, player_to_roster,
                   df_optimal, df_remaining, formatVars, week, requested, saved, failed,
                   rosters_data, users_data, ytdVars, benchmarkVars>>

\* one of the requests raises RequestException: None is returned, nothing written
FetchRosterUserMapFailed ==
    /\ pc = "map_start"
    /\ LEAGUE_ID # "YOUR_LEAGUE_ID_HERE"
    /\ pc' = "map_failed"
    /\ UNCHANGED <<player_data, week_files, position_map, full_position_map, name_map,
                   ir_players, df_median, df_excluded_single_matchup, player_to_roster,
                   df_optimal, df_remaining, formatVars, week, requested, saved, failed,
                   reportVars>>

NextRosterMap == FetchRosterUserMap \/ FetchRosterUserMapFailed

SpecRosterMap == InitRosterMap /\ [][NextRosterMap]_vars

(***************************************************************************)
(* analyze_ytd.py : analyze_ytd_starters                                   *)
(***************************************************************************)
POSITIONS_OF_INTEREST == <<"QB", "RB", "WR", "TE">>

\* "position in POSITIONS_OF_INTEREST"
TrackedPositions == {POSITIONS_OF_INTEREST[i] : i \in DOMAIN POSITIONS_OF_INTEREST}

\* the default of team_totals: {'QB': 0, 'RB': 0, 'WR': 0, 'TE': 0}
ZeroTotals == [pos \in {"QB", "RB", "WR", "TE"} |-> 0]

\* team_totals: the rosters in the order their entries were created, and the entries
EmptyTeamTotals == [order |-> <<>>, data |-> <<>>]

\* the score replaces the total instead of adding to it
AddScore_Assign(team_totals, roster_id, position, score) ==
    LET known == roster_id \in DOMAIN team_totals.data
        entry == IF known THEN team_totals.data[roster_id] ELSE ZeroTotals
    IN [order |-> IF known THEN team_totals.order ELSE Append(team_totals.order, roster_id),
        data |-> Put(team_totals.data, roster_id, [entry EXCEPT ![position] = score])]

\* team_totals[roster_id][position] += score, the entry created when missing
AddScore(team_totals, roster_id, position, score) ==
    LET known == roster_id \in DOMAIN team_totals.data
        entry == IF known THEN team_totals.data[roster_id] ELSE ZeroTotals
    IN [order |-> IF known THEN team_totals.order ELSE Append(team_totals.order, roster_id),
        data |-> Put(team_totals.data, roster_id, [entry EXCEPT ![position] = @ + score])]

\* the body of "for player_id in starters"
AddStarter(team_totals, player_map, team, player_id) ==
    LET player_info == GetOr(player_map, player_id, <<>>)
        score == GetOr(team.players_points, player_id, 0)
    IN IF "position" \in DOMAIN player_info
          /\ player_info.position \in TrackedPositions
       THEN AddScore(team_totals, ToString(team.roster_id), player_info.position, score)
       ELSE team_totals

RECURSIVE AddStarters(_, _, _, _)
AddStarters(team_totals, player_map, team, starters) ==
    IF starters = <<>> THEN team_totals
    ELSE AddStarters(AddStarter(team_totals, player_map, team, Head(starters)),
                     player_map, team, Tail(starters))

\* the body of "for team in matchup_data"
RECURSIVE AddTeams(_, _, _)
AddTeams(team_totals, player_map, matchup_data) ==
    IF matchup_data = <<>> THEN team_totals
    ELSE AddTeams(AddStarters(team_totals, player_map, Head(matchup_data),
                              Head(matchup_data).starters),
                  player_map, Tail(matchup_data))

\* the body of "for filename in os.listdir(YTD_DATA_DIR)"
RECURSIVE AddFiles(_, _, _, _)
AddFiles(team_totals, player_map, files, listing) ==
    IF listing = <<>> THEN team_totals
    ELSE AddFiles(AddTeams(team_totals, player_map, files[Head(listing)]),
                  player_map, files, Tail(listing))

\* f'Roster {roster_id} (Unknown)'
UnknownName(roster_id) == <<"Roster ", roster_id, " (Unknown)">>

\* steps 4 and 5: one row per entry of team_totals, with the total of the four
\* positions
YtdRows(team_totals, names) ==
    [i \in 1..Len(team_totals.order) |->
        LET roster_id == team_totals.order[i]
            data == team_totals.data[roster_id]
        IN [Team_Name |-> GetOr(names, roster_id, UnknownName(roster_id)),
            Roster_ID |-> roster_id,
            QB |-> data["QB"], RB |-> data["RB"], WR |-> data["WR"], TE |-> data["TE"],
            Total_Starter_Points |-> data["QB"] + data["RB"] + data["WR"] + data["TE"]]]

\* The players of the files: 1 and 2.  The player map gives player 1 a tracked
\* position or kicker, and player 2 a tracked position or no entry.
YtdPlayerMaps ==
    {[p \in {1} |-> [position |-> a]] : a \in {"QB", "RB", "K"}} \cup
    {[p \in {1, 2} |-> [position |-> IF p = 1 THEN a ELSE b]] :
        a \in {"QB", "RB", "K"}, b \in {"QB", "WR", "TE"}}

\* what a file says of a player: nothing, on the bench of roster 1 with 0.3 point,
\* or a starter of a roster with or without a players_points entry
YtdListings ==
    {<<>>, <<"bench", 1, <<6>>>>, <<"starter", 1, <<>>>>, <<"starter", 1, <<2>>>>,
     <<"starter", 1, <<6>>>>, <<"starter", 2, <<6>>>>}

\* the team object of roster r
YtdTeam(r, said) ==
    [roster_id |-> r,
     starters |-> SetToSeq({p \in DOMAIN said :
                              said[p] # <<>> /\ said[p][1] = "starter" /\ said[p][2] = r}),
     players_points |->
        [p \in {q \in DOMAIN said : said[q] # <<>> /\ said[q][2] = r /\ said[q][3] # <<>>} |->
            said[p][3][1]]]

YtdFile(said) == [i \in 1..2 |-> YtdTeam(i, said)]

InitYtd ==
    /\ pc = "ytd_start"
    /\ player_data \in YtdPlayerMaps
    /\ \E n \in 0..MaxYtdFiles :
          \E said \in [1..n -> [{1, 2} -> YtdListings]] :
             ytd_files = [f \in 1..n |-> YtdFile(said[f])]
    /\ roster_name_map = [id \in {"1"} |-> <<"team", 1>>]
    /\ ytd_report = <<>>
    /\ rosters_data = <<>> /\ users_data = <<>> /\ BenchmarkIdle
    /\ week = 0 /\ requested = <<>> /\ saved = {} /\ failed = {}
    /\ week_files = <<>>
    /\ position_map = <<>> /\ full_position_map = <<>> /\ name_map = <<>>
    /\ ir_players = <<>>
    /\ df_median = <<>> /\ df_excluded_single_matchup = <<>> /\ player_to_roster = <<>>
    /\ df_optimal = <<>> /\ df_remaining = <<>> /\ FormatIdle

\* analyze_ytd_starters with both maps loaded.  With no entry in team_totals the
\* frame has no columns and df[POSITIONS_OF_INTEREST] raises KeyError.
AnalyzeYtdStarters ==
    /\ pc = "ytd_start"
    /\ \E listing \in Listing(ytd_files) :
         \E team_totals \in {AddFiles(EmptyTeamTotals, player_data, ytd_files, listing)} :
            IF team_totals.order = <<>>
            THEN pc' = "ytd_raised" /\ UNCHANGED ytd_report
            ELSE /\ ytd_report' = YtdRows(team_totals, roster_name_map)
                 /\ pc' = "ytd_saved"
    /\ UNCHANGED <<player_data, week_files, position_map, full_position_map, name_map,
                   ir_players, df_median, df_excluded_single_matchup, player_to_roster,
                   df_optimal, df_remaining, formatVars, week, requested, saved, failed,
                   rosterMapVars, ytd_files, benchmarkVars>>

\* a map file is missing or unreadable: load_data returns None and the function
\* returns
AnalyzeYtdNoMaps ==
    /\ pc = "ytd_start"
    /\ pc' = "ytd_returned"
    /\ UNCHANGED <<player_data, week_files, position_map, full_position_map, name_map,
                   ir_players, df_median, df_excluded_single_matchup, player_to_roster,
                   df_optimal, df_remaining, formatVars, week, requested, saved, failed,
                   reportVars>>

NextYtd == AnalyzeYtdStarters \/ AnalyzeYtdNoMaps

SpecYtd == InitYtd /\ [][NextYtd]_vars

(***************************************************************************)
(* positional_scatter_plot.py : get_benchmark_scores                       *)
(***************************************************************************)
\* a float that is a number, and float('nan')
Number(v) == <<"number", v>>

FloatNaN == <<"nan">>

\* series.get(label, float('nan')) on a series whose index is 0, 1, 2, ...
SeriesGet(series, label) ==
    IF label + 1 \in 1..Len(series) THEN Number(series[label + 1]) ELSE FloatNaN

\* series.sort_values(ascending=False).reset_index(drop=True)
SortValuesDescending(series) ==
    StableSortByKey(series, [i \in 1..Len(series) |-> -series[i]])

\* the values in ascending order
get_benchmark_scores_Ascending(series) ==
    LET sorted_scores == StableSortByKey(series, [i \in 1..Len(series) |-> series[i]])
    IN <<SeriesGet(sorted_scores, 5), SeriesGet(sorted_scores, 17)>>

get_benchmark_scores(series) ==
    LET sorted_scores == SortValuesDescending(series)
    IN <<SeriesGet(sorted_scores, 5), SeriesGet(sorted_scores, 17)>>

\* the sequences over S of length 0..n
SeqsUpTo(S, n) == UNION {[1..k -> S] : k \in 0..n}

\* The Points of the starters of one week and position, in the order of the rows:
\* any few points followed by a run of equal points.
InitBenchmark ==
    /\ pc = "benchmark_start"
    /\ \E free \in SeqsUpTo(PointValues, MaxFreeLen) :
         \E run \in 0..MaxRunLen :
            \E v \in PointValues :
               points_series = free \o [i \in 1..run |-> v]
    /\ benchmark = <<>>
    /\ RosterMapIdle /\ YtdIdle
    /\ player_data = <<>> /\ week_files = <<>>
    /\ position_map = <<>> /\ full_position_map = <<>> /\ name_map = <<>>
    /\ ir_players = <<>>
    /\ df_median = <<>> /\ df_excluded_single_matchup = <<>> /\ player_to_roster = <<>>
    /\ df_optimal = <<>> /\ df_remaining = <<>> /\ FormatIdle
    /\ week = 0 /\ requested = <<>> /\ saved = {} /\ failed = {}

GetBenchmarkScores ==
    /\ pc = "benchmark_start"
    /\ benchmark' = get_benchmark_scores(points_series)
    /\ pc' = "benchmark_returned"
    /\ UNCHANGED <<player_data, week_files, position_map, full_position_map, name_map,
                   ir_players, df_median, df_excluded_single_matchup, player_to_roster,
                   df_optimal, df_remaining, formatVars, week, requested, saved, failed,
                   rosterMapVars, ytdVars, points_series>>

SpecBenchmark == InitBenchmark /\ [][GetBenchmarkScores]_vars

(***************************************************************************)
(* Properties of select_optimal_lineup                                     *)
(***************************************************************************)
\* select_optimal_lineup has just returned df_optimal and df_remaining
LineupDone == pc = "selected"

\* the roster shape, stated on its own
SlotNames == {"QB", "RB", "WR", "TE", "FLEX", "SUPERFLEX"}

SlotCapacity(slot) ==
    CASE slot = "QB" -> 1 [] slot = "RB" -> 2 [] slot = "WR" -> 3
      [] slot = "TE" -> 1 [] slot = "FLEX" -> 2 [] slot = "SUPERFLEX" -> 1

\* the order in which the slots are filled
SlotRank(slot) ==
    CASE slot = "QB" -> 1 [] slot = "RB" -> 2 [] slot = "WR" -> 3
      [] slot = "TE" -> 4 [] slot = "FLEX" -> 5 [] slot = "SUPERFLEX" -> 6

EligibleFor(slot, position) ==
    CASE slot = "FLEX" -> position \in {"RB", "WR", "TE"}
      [] slot = "SUPERFLEX" -> position \in {"QB", "RB", "WR", "TE"}
      [] OTHER -> position = slot

TeamsOfTable == {df_median[i].Roster_ID : i \in 1..Len(df_median)}

TeamPlayers(r) ==
    {df_median[i].Player_ID : i \in {j \in 1..Len(df_median) : df_median[j].Roster_ID = r}}

RowOfPlayer(p) == df_median[CHOOSE i \in 1..Len(df_median) : df_median[i].Player_ID = p]

\* the rows of team r in the returned lineup, in the order returned
LineupOf(r) == SelectSeq(df_optimal, LAMBDA row : row.Roster_ID = r)

RemainingOf(r) == SelectSeq(df_remaining, LAMBDA row : row.Roster_ID = r)

SlotCount(lineup, slot) == Cardinality({i \in 1..Len(lineup) : lineup[i].Position = slot})

\* C1: each team's slots are filled in the order QB, RB, WR, TE, FLEX, SUPERFLEX,
\* every slot holds a player of the team who is eligible for it, was not slotted
\* before and has the highest median among the eligible players not slotted before,
\* and a slot stays empty only when no eligible unslotted player is left.
C1_GreedyBestAvailable ==
    LineupDone =>
      \A r \in TeamsOfTable :
        LET lineup == LineupOf(r)
            Before(i) == {lineup[j].Player_ID : j \in 1..(i - 1)}
        IN /\ \A i \in 1..(Len(lineup) - 1) :
                 SlotRank(lineup[i].Position) <= SlotRank(lineup[i + 1].Position)
           /\ \A i \in 1..Len(lineup) :
                 /\ lineup[i].Player_ID \in TeamPlayers(r) \ Before(i)
                 /\ EligibleFor(lineup[i].Position, RowOfPlayer(lineup[i].Player_ID).Position)
                 /\ lineup[i].Median_Points = RowOfPlayer(lineup[i].Player_ID).Median_Points
                 /\ \A q \in TeamPlayers(r) \ Before(i) :
                       EligibleFor(lineup[i].Position, RowOfPlayer(q).Position)
                          => RowOfPlayer(q).Median_Points <= lineup[i].Median_Points
           /\ \A slot \in SlotNames :
                 /\ SlotCount(lineup, slot) <= SlotCapacity(slot)
                 /\ SlotCount(lineup, slot) < SlotCapacity(slot) =>
                       \A q \in TeamPlayers(r) :
                          EligibleFor(slot, RowOfPlayer(q).Position) =>
                             \E j \in 1..Len(lineup) :
                                /\ lineup[j].Player_ID = q
                                /\ SlotRank(lineup[j].Position) <= SlotRank(slot)

\* a team fills a FLEX and the SUPERFLEX slot and still leaves a player out
C1_Witness ==
    /\ pc = "selected"
    /\ \E r \in TeamsOfTable :
          /\ SlotCount(LineupOf(r), "FLEX") >= 1
          /\ SlotCount(LineupOf(r), "SUPERFLEX") = 1
          /\ RemainingOf(r) # <<>>

\* C2: every team's lineup has at most 1 QB, 2 RB, 3 WR, 1 TE, 2 FLEX and 1
\* SUPERFLEX row (10 at most); a QB/RB/WR/TE row holds a player of that inherent
\* position, a FLEX row an RB, WR or TE, a SUPERFLEX row a QB, RB, WR or TE.
C2_RosterShape ==
    LineupDone =>
      \A r \in TeamsOfTable :
        LET lineup == LineupOf(r)
        IN /\ Len(lineup) <= 10
           /\ \A slot \in SlotNames : SlotCount(lineup, slot) <= SlotCapacity(slot)
           /\ \A i \in 1..Len(lineup) :
                 /\ lineup[i].Position \in SlotNames
                 /\ EligibleFor(lineup[i].Position, lineup[i].Inherent_Position)
                 /\ lineup[i].Inherent_Position = RowOfPlayer(lineup[i].Player_ID).Position

\* a team with three quarterbacks: one in the QB slot, one in SUPERFLEX, one left out
C2_Witness ==
    /\ pc = "selected"
    /\ \E r \in TeamsOfTable :
          /\ Cardinality({p \in TeamPlayers(r) : RowOfPlayer(p).Position = "QB"}) >= 3
          /\ SlotCount(LineupOf(r), "QB") = 1
          /\ \E i \in 1..Len(LineupOf(r)) :
                /\ LineupOf(r)[i].Position = "SUPERFLEX"
                /\ LineupOf(r)[i].Inherent_Position = "QB"

\* the sum of f over the set S
RECURSIVE SumOver(_, _)
SumOver(f, S) ==
    IF S = {} THEN 0
    ELSE LET p == CHOOSE x \in S : TRUE
         IN f[p] + SumOver(f, S \ {p})

LineupTotal(r) ==
    LET lineup == LineupOf(r)
    IN SeqSum([i \in 1..Len(lineup) |-> lineup[i].Median_Points])

\* a assigns every player of S to the slot of the player's own position ("OWN"),
\* to FLEX or to SUPERFLEX; it respects eligibility and the number of slots
ValidAssignment(position, S, a) ==
    LET SlotOf(p) == IF a[p] = "OWN" THEN position[p] ELSE a[p]
    IN /\ \A p \in S : EligibleFor(SlotOf(p), position[p])
       /\ \A slot \in SlotNames :
             Cardinality({p \in S : SlotOf(p) = slot}) <= SlotCapacity(slot)

\* C3: no assignment of a team's players to the slots that respects eligibility and
\* uses each player once has a larger sum of medians than the returned lineup.
C3_Optimal ==
    LineupDone =>
      \A r \in TeamsOfTable :
        LET total == LineupTotal(r)
            team == TeamPlayers(r)
            median == [p \in team |-> RowOfPlayer(p).Median_Points]
            position == [p \in team |-> RowOfPlayer(p).Position]
        IN \A S \in SUBSET team :
              SumOver(median, S) > total =>
                 ~ \E a \in [S -> {"OWN", "FLEX", "SUPERFLEX"}] :
                      ValidAssignment(position, S, a)

\* a team whose lineup leaves out a player, so that a different choice was possible
C3_Witness ==
    /\ pc = "selected"
    /\ \E r \in TeamsOfTable :
          /\ RemainingOf(r) # <<>>
          /\ \E i \in 1..Len(LineupOf(r)) :
                RemainingOf(r)[1].Median_Points < LineupOf(r)[i].Median_Points

(***************************************************************************)
(* What the files say, read off the files themselves                       *)
(***************************************************************************)
FileWeeks == DOMAIN week_files

\* the largest week number among the matchup files
LatestFileWeek ==
    IF FileWeeks = {} THEN 0 ELSE CHOOSE w \in FileWeeks : \A v \in FileWeeks : v <= w

BoxScoresListing(p, w) ==
    {i \in 1..Len(week_files[w]) :
        \E k \in 1..Len(week_files[w][i].players) : week_files[w][i].players[k] = p}

ListedIn(p, w) == w \in FileWeeks /\ BoxScoresListing(p, w) # {}

\* the box score of week w that lists p
ListingBoxScore(p, w) == week_files[w][CHOOSE i \in BoxScoresListing(p, w) : TRUE]

\* p has recorded points in week w
ScoredIn(p, w) == ListedIn(p, w) /\ p \in DOMAIN ListingBoxScore(p, w).players_points

WeeklyPoints(p, w) == ListingBoxScore(p, w).players_points[p]

\* the weeks in which p has a score of 0.1 or more
PlayingWeeks(p) == {w \in FileWeeks : ScoredIn(p, w) /\ WeeklyPoints(p, w) >= 2}

\* the k-th smallest of the scores p has in the weeks W
KthSmallest(p, W, k) ==
    LET x == CHOOSE w \in W :
                /\ Cardinality({v \in W : WeeklyPoints(p, v) < WeeklyPoints(p, w)}) < k
                /\ Cardinality({v \in W : WeeklyPoints(p, v) <= WeeklyPoints(p, w)}) >= k
    IN WeeklyPoints(p, x)

\* the median of the scores of 0.1 or more that p has (p has one at least)
TrueMedian(p) ==
    LET W == PlayingWeeks(p)
        n == Cardinality(W)
    IN IF n % 2 = 1 THEN KthSmallest(p, W, (n + 1) \div 2)
       ELSE (KthSmallest(p, W, n \div 2) + KthSmallest(p, W, n \div 2 + 1)) \div 2

InPlayerFile(p) == p \in DOMAIN player_data

IsIr(p) == InPlayerFile(p) /\ player_data[p].injury_status = "IR"

\* p is a QB, RB, WR or TE of the player file
HasScoringPosition(p) ==
    InPlayerFile(p) /\ player_data[p].position \in {"QB", "RB", "WR", "TE"}

\* both of the last two weeks hold a recorded score of p below 0.1
TwoRecentLowScores(p) ==
    /\ ScoredIn(p, LatestFileWeek) /\ WeeklyPoints(p, LatestFileWeek) < 2
    /\ ScoredIn(p, LatestFileWeek - 1) /\ WeeklyPoints(p, LatestFileWeek - 1) < 2

\* exactly one of the last two weeks holds a recorded score of p below 0.1
OneRecentLowScore(p) ==
    Cardinality({w \in {LatestFileWeek, LatestFileWeek - 1} :
                    ScoredIn(p, w) /\ WeeklyPoints(p, w) < 2}) = 1

Processed == pc \in {"processed", "selected", "done"}

Selected == pc \in {"selected", "done"}

InMedianTable(p) == \E i \in 1..Len(df_median) : df_median[i].Player_ID = p

(***************************************************************************)
(* Properties of the analysis                                              *)
(***************************************************************************)
\* C4: a player whose injury_status is "IR" in the player file is never slotted as
\* a starter in a team's optimal lineup.
C4_IrNeverStarter ==
    Selected => \A i \in 1..Len(df_optimal) : ~IsIr(df_optimal[i].Player_ID)

\* C5: the Median_Points of a player, in df_median and in the excluded list, is the
\* median of exactly the weekly points of the player that are present and at
\* least 0.1, and so is at least 0.1.
C5_MedianOfPlayingScores ==
    Processed =>
      /\ \A i \in 1..Len(df_median) :
            /\ PlayingWeeks(df_median[i].Player_ID) # {}
            /\ df_median[i].Median_Points = TrueMedian(df_median[i].Player_ID)
            /\ df_median[i].Median_Points >= 2
      /\ \A i \in 1..Len(df_excluded_single_matchup) :
            /\ Cardinality(PlayingWeeks(df_excluded_single_matchup[i].Player_ID)) = 1
            /\ df_excluded_single_matchup[i].Median_Points =
                  TrueMedian(df_excluded_single_matchup[i].Player_ID)

\* a player of df_median has a score below 0.1, which stays out of the median, and
\* two different scores of 0.1 or more
C5_Witness ==
    /\ pc = "processed"
    /\ \E i \in 1..Len(df_median) :
          /\ \E w \in FileWeeks :
                /\ ScoredIn(df_median[i].Player_ID, w)
                /\ WeeklyPoints(df_median[i].Player_ID, w) < 2
          /\ \E v, w \in PlayingWeeks(df_median[i].Player_ID) :
                WeeklyPoints(df_median[i].Player_ID, v) < WeeklyPoints(df_median[i].Player_ID, w)

\* C6: a player whose recorded points in the latest week and in the week before it
\* are both below 0.1 is in neither df_median, a lineup nor the remaining players;
\* a player with only one score below 0.1 in those two weeks, whom no other filter
\* removes, is in df_median.
C6_ConsecutiveZeros ==
    Processed =>
      \A p \in Players :
         /\ TwoRecentLowScores(p) =>
               /\ ~InMedianTable(p)
               /\ \A i \in 1..Len(df_optimal) : df_optimal[i].Player_ID # p
               /\ \A i \in 1..Len(df_remaining) : df_remaining[i].Player_ID # p
         /\ ( /\ OneRecentLowScore(p)
              /\ HasScoringPosition(p)
              /\ PlayingWeeks(p) # {}
              /\ ~(LatestFileWeek >= 4 /\ Cardinality(PlayingWeeks(p)) = 1) )
               => InMedianTable(p)

\* a player who played earlier is removed for two low scores in the last two weeks
\* while a lineup is selected from the other players
C6_Witness ==
    /\ pc = "selected"
    /\ \E p \in Players :
          /\ TwoRecentLowScores(p)
          /\ HasScoringPosition(p)
          /\ PlayingWeeks(p) # {}
          /\ ~(LatestFileWeek >= 4 /\ Cardinality(PlayingWeeks(p)) = 1)

\* C7: process_matchup_data returns, and when the largest week number is 4 or more,
\* every player with exactly one weekly score of 0.1 or more is out of df_median
\* and, when the player has a roster, in the excluded list with Reason 'Single
\* Matchup Filter'; when it is below 4, the excluded list is empty and a single
\* score removes no player.
C7_SingleMatchup ==
    pc \notin {"start", "loaded"} =>
      /\ (LatestFileWeek >= 4 /\ Processed) =>
            \A p \in Players :
               Cardinality(PlayingWeeks(p)) = 1 =>
                  /\ ~InMedianTable(p)
                  /\ p \in DOMAIN player_to_roster =>
                        \E i \in 1..Len(df_excluded_single_matchup) :
                           /\ df_excluded_single_matchup[i].Player_ID = p
                           /\ df_excluded_single_matchup[i].Reason = "Single Matchup Filter"
      /\ LatestFileWeek < 4 =>
            /\ pc # "process_raised"
            /\ df_excluded_single_matchup = <<>>
            /\ \A p \in Players :
                  ( /\ Cardinality(PlayingWeeks(p)) = 1
                    /\ HasScoringPosition(p)
                    /\ ~TwoRecentLowScores(p) ) => InMedianTable(p)

\* C8: player_to_roster maps every QB, RB, WR or TE that a box score lists to the
\* roster of the box score with the highest week number that lists the player.
C8_LatestOwner ==
    Processed =>
      \A p \in Players :
         (HasScoringPosition(p) /\ \E w \in FileWeeks : ListedIn(p, w)) =>
            LET last == CHOOSE w \in FileWeeks :
                           ListedIn(p, w) /\ \A v \in FileWeeks : ListedIn(p, v) => v <= w
            IN /\ p \in DOMAIN player_to_roster
               /\ player_to_roster[p] = ListingBoxScore(p, last).roster_id

\* a player listed by one roster and, in a later week, by another
C8_Witness ==
    /\ pc = "processed"
    /\ \E p \in DOMAIN player_to_roster :
          \E v, w \in FileWeeks :
             /\ v < w /\ ListedIn(p, v) /\ ListedIn(p, w)
             /\ ListingBoxScore(p, v).roster_id # ListingBoxScore(p, w).roster_id
             /\ player_to_roster[p] = ListingBoxScore(p, w).roster_id

\* C9: the Median Points of an IR row is the median of the player's scores of 0.1
\* or more when the player has one, and 0.0 only when the player has none.
C9_IrTrueMedian ==
    pc = "done" =>
      \A i \in 1..Len(ir_rows) :
         IF PlayingWeeks(ir_rows[i].Player_ID) # {}
         THEN ir_rows[i].Median_Points = TrueMedian(ir_rows[i].Player_ID)
         ELSE ir_rows[i].Median_Points = 0

(***************************************************************************)
(* Properties of fetch_ytd_matchups                                        *)
(***************************************************************************)
\* C10: the weeks are requested in the order 1, 2, 3, ..., each once; a week whose
\* request succeeds is saved and no other; the function does not end before week
\* CURRENT_WEEK is requested, whichever requests failed.
C10_EveryWeekRequested ==
    /\ \A i \in 1..Len(requested) : requested[i] = i
    /\ Len(requested) <= CURRENT_WEEK
    /\ saved = {requested[i] : i \in 1..Len(requested)} \ failed
    /\ pc = "fetched" => Len(requested) = CURRENT_WEEK
    /\ pc = "fetching" => ENABLED NextFetch

\* the run ends with a failed week followed by a saved one
C10_Witness ==
    /\ pc = "fetched"
    /\ \E v \in failed : \E w \in saved : v < w

(***************************************************************************)
(* Properties of fetch_roster_user_map                                     *)
(***************************************************************************)
\* the users the API returned with user_id u
UsersWithId(u) == {i \in 1..Len(users_data) : users_data[i].user_id = u}

\* the custom team name of a user, when one is set
HasTeamName(user) ==
    /\ "metadata" \in DOMAIN user
    /\ "team_name" \in DOMAIN user.metadata
    /\ user.metadata.team_name \notin {None, EmptyString}

\* C11: the written map has one entry per roster the API returned, under the string
\* form of its roster_id: the owner's team_name when the owner is a returned user
\* with one set, the owner's display_name when the owner has none set, and
\* 'Roster <roster_id> (No Owner)' without owner_id or with an owner that is no
\* returned user.
C11_RosterNameMap ==
    pc = "map_saved" =>
      /\ DOMAIN roster_name_map = {ToString(rosters_data[i].roster_id) : i \in 1..Len(rosters_data)}
      /\ Cardinality(DOMAIN roster_name_map) = Len(rosters_data)
      /\ \A i \in 1..Len(rosters_data) :
            LET roster == rosters_data[i]
                name == roster_name_map[ToString(roster.roster_id)]
                owned == /\ "owner_id" \in DOMAIN roster
                         /\ roster.owner_id # None
                         /\ UsersWithId(roster.owner_id[1]) # {}
            IN IF owned
               THEN LET owner == users_data[CHOOSE j \in UsersWithId(roster.owner_id[1]) : TRUE]
                    IN IF HasTeamName(owner) THEN name = owner.metadata.team_name
                       ELSE IF "display_name" \in DOMAIN owner THEN name = owner.display_name
                       ELSE name = None
               ELSE name = <<"Roster ", ToString(roster.roster_id), " (No Owner)">>

\* the map names one roster after its owner's team_name and gives another the
\* no-owner name
C11_Witness ==
    /\ pc = "map_saved"
    /\ \E i, j \in 1..Len(rosters_data) :
          /\ roster_name_map[ToString(i)] = <<"team", 2>>
          /\ roster_name_map[ToString(j)][1] = "Roster "

(***************************************************************************)
(* Properties of analyze_ytd_starters                                      *)
(***************************************************************************)
\* the places (file, team, index in starters) of the starters in the files
StarterPlaces ==
    {<<f, t, k>> \in (DOMAIN ytd_files) \X (1..2) \X (1..2) :
        k <= Len(ytd_files[f][t].starters)}

StarterAt(place) == ytd_files[place[1]][place[2]].starters[place[3]]

\* the starters of roster rid that the player map places at position pos
StartersOf(rid, pos) ==
    {place \in StarterPlaces :
        /\ ToString(ytd_files[place[1]][place[2]].roster_id) = rid
        /\ StarterAt(place) \in DOMAIN player_data
        /\ player_data[StarterAt(place)].position = pos}

\* the players_points value of a starter, 0 without an entry
StarterScore(place) ==
    LET points == ytd_files[place[1]][place[2]].players_points
    IN IF StarterAt(place) \in DOMAIN points THEN points[StarterAt(place)] ELSE 0

ExpectedTotal(rid, pos) ==
    SumOver([place \in StarterPlaces |-> StarterScore(place)], StartersOf(rid, pos))

\* C12: every roster with a QB, RB, WR or TE starter has one row, and a row reports,
\* for each of the four positions, the sum over all files of the players_points of
\* the roster's starters of that position (0 without an entry), and their sum as
\* Total Starter Points.
C12_StarterTotals ==
    pc = "ytd_saved" =>
      /\ \A rid \in {"1", "2"} :
            Cardinality({i \in 1..Len(ytd_report) : ytd_report[i].Roster_ID = rid})
               = IF \E pos \in {"QB", "RB", "WR", "TE"} : StartersOf(rid, pos) # {}
                 THEN 1 ELSE 0
      /\ \A i \in 1..Len(ytd_report) :
            LET row == ytd_report[i]
            IN /\ row.QB = ExpectedTotal(row.Roster_ID, "QB")
               /\ row.RB = ExpectedTotal(row.Roster_ID, "RB")
               /\ row.WR = ExpectedTotal(row.Roster_ID, "WR")
               /\ row.TE = ExpectedTotal(row.Roster_ID, "TE")
               /\ row.Total_Starter_Points =
                     ExpectedTotal(row.Roster_ID, "QB") + ExpectedTotal(row.Roster_ID, "RB")
                     + ExpectedTotal(row.Roster_ID, "WR") + ExpectedTotal(row.Roster_ID, "TE")

\* a roster starts two quarterbacks in one file and one in another, while a bench
\* player of the roster has points
C12_Witness ==
    /\ pc = "ytd_saved"
    /\ \E i \in 1..Len(ytd_report) :
          /\ ytd_report[i].Roster_ID = "1"
          /\ ytd_report[i].QB = 14
          /\ ytd_report[i].Total_Starter_Points = 14
    /\ \E f \in DOMAIN ytd_files :
          /\ Len(ytd_files[f][1].starters) = 1
          /\ Cardinality(DOMAIN ytd_files[f][1].players_points) = 2

(***************************************************************************)
(* Properties of format_output_csv                                         *)
(***************************************************************************)
\* the report was written
Written == pc = "done" /\ final_output # <<>>

IsSeparator(i) == final_output[i].Position = NaN

\* the index of the k-th separator row, 0 for k = 0
SeparatorIndex(k) ==
    IF k = 0 THEN 0
    ELSE CHOOSE i \in 1..Len(final_output) :
            /\ IsSeparator(i)
            /\ Cardinality({j \in 1..i : IsSeparator(j)}) = k

\* the indexes of the rows of the k-th team block
BlockRows(k) == (SeparatorIndex(k - 1) + 1)..SeparatorIndex(k)

LineupTeams == {df_optimal[i].Roster_ID : i \in 1..Len(df_optimal)}

LineupRowsOf(r) == {i \in 1..Len(df_optimal) : df_optimal[i].Roster_ID = r}

\* the sum of the median points of the optimal lineup of roster r
LineupSum(r) ==
    SumOver([i \in 1..Len(df_optimal) |-> df_optimal[i].Median_Points], LineupRowsOf(r))

TotalRowIndexes == {i \in 1..Len(final_output) : final_output[i].Position = "TOTAL"}

\* the Median Points of the TOTAL rows, in the order of the file
TotalsWritten ==
    LET idx == SetToSeq(TotalRowIndexes)
    IN [k \in 1..Len(idx) |-> final_output[idx[k]].Median_Points]

\* C13: the file has one block per team of the lineup table, the TOTAL rows carry
\* the sums of the teams' lineup medians, and they appear in non-increasing order.
C13_SortedByTotal ==
    Written =>
      /\ Len(TotalsWritten) = Cardinality(LineupTeams)
      /\ \A r \in LineupTeams :
            Cardinality({k \in 1..Len(TotalsWritten) : TotalsWritten[k] = LineupSum(r)})
               = Cardinality({q \in LineupTeams : LineupSum(q) = LineupSum(r)})
      /\ \A k \in 1..(Len(TotalsWritten) - 1) : TotalsWritten[k] >= TotalsWritten[k + 1]

\* roster 2 has the larger total and its block comes first
C13_Witness ==
    /\ Written
    /\ LineupTeams = {1, 2}
    /\ LineupSum(2) > LineupSum(1)
    /\ Len(TotalsWritten) = 2
    /\ TotalsWritten[1] = LineupSum(2)
    /\ TotalsWritten[2] = LineupSum(1)

\* the disqualified players the code considers: the IR list and the single-matchup
\* list
DisqualifiedPlayers ==
    {ir_rows[i] : i \in 1..Len(ir_rows)}
      \cup {df_excluded_single_matchup[i] : i \in 1..Len(df_excluded_single_matchup)}

\* the first remaining row of roster r at position pos, as a set of indexes
TopRemainingOf(r, pos) ==
    LET rows == {i \in 1..Len(df_remaining) :
                    df_remaining[i].Roster_ID = r /\ df_remaining[i].Position = pos}
    IN {i \in rows : \A j \in rows : i <= j}

\* the (inherent position, median) of the players the cutoffs are taken over: the
\* lineup players of roster r and its top remaining player at QB, RB, WR and TE
RelevantPlayers(r) ==
    {<<"lineup", i, df_optimal[i].Inherent_Position, df_optimal[i].Median_Points>> :
        i \in LineupRowsOf(r)}
      \cup UNION {{<<"backup", i, df_remaining[i].Position, df_remaining[i].Median_Points>> :
                     i \in TopRemainingOf(r, pos)} : pos \in {"QB", "RB", "WR", "TE"}}

MinMedian(S) == CHOOSE m \in {x[4] : x \in S} : \A x \in S : m <= x[4]

OverallCutoffOf(r) == MinMedian(RelevantPlayers(r))

PositionalFloorOf(r, pos) ==
    LET same == {x \in RelevantPlayers(r) : x[3] = pos}
    IN IF same = {} THEN OverallCutoffOf(r) ELSE MinMedian(same)

MaxOf(a, b) == IF a >= b THEN a ELSE b

\* the block of roster r has a row for the disqualified player d
InOutput(d) ==
    \E k \in 1..Len(sorted_roster_ids) :
       /\ sorted_roster_ids[k] = d.Roster_ID
       /\ \E i \in BlockRows(k) :
             /\ final_output[i].Position = Upper(d.Reason)
             /\ final_output[i].Player_Name = <<d.Player_Name, " (", d.Position, ")">>
             /\ final_output[i].Median_Points = d.Median_Points

\* C15: a disqualified player of a team of the lineup table is written if and only
\* if the player's median is at least the larger of the team's overall cutoff and
\* the positional floor of the player's position.
C15_RelevanceFilter ==
    Written =>
      \A d \in DisqualifiedPlayers :
         d.Roster_ID \in LineupTeams =>
            (InOutput(d) <=>
               d.Median_Points >= MaxOf(OverallCutoffOf(d.Roster_ID),
                                        PositionalFloorOf(d.Roster_ID, d.Position)))

\* the rank of a row in the order of a team block
RowRank(row) ==
    CASE row.Position = "QB" -> 1 [] row.Position = "RB" -> 2
      [] row.Position = "WR" -> 3 [] row.Position = "TE" -> 4
      [] row.Position = "FLEX" -> 5 [] row.Position = "SUPERFLEX" -> 6
      [] row.Position = "TOTAL" -> 7
      [] row.Position = "BACKUP QB" -> 8 [] row.Position = "BACKUP RB" -> 9
      [] row.Position = "BACKUP WR" -> 10 [] row.Position = "BACKUP TE" -> 11
      [] row.Position = "IR STATUS" -> 12
      [] row.Position = "SINGLE MATCHUP FILTER" -> 13
      [] row.Position = NaN -> 14

KthHighest(k) ==
    CHOOSE v \in {points_series[i] : i \in 1..Len(points_series)} :
        /\ Cardinality({i \in 1..Len(points_series) : points_series[i] > v}) < k
        /\ Cardinality({i \in 1..Len(points_series) : points_series[i] >= v}) >= k

KthHighestOrNaN(k) ==
    IF Len(points_series) >= k THEN Number(KthHighest(k)) ELSE FloatNaN

\* C14: get_benchmark_scores returns the 6th highest and the 18th highest value of
\* the series, duplicates counted, and NaN in place of each when the series has
\* fewer than 6, respectively 18, values.
C14_Benchmarks ==
    pc = "benchmark_returned" =>
       benchmark = <<KthHighestOrNaN(6), KthHighestOrNaN(18)>>

\* a series of at least 18 values that is not sorted and whose 6th and 18th highest
\* values differ
C14_Witness ==
    /\ pc = "benchmark_returned"
    /\ Len(points_series) >= 18
    /\ benchmark = <<Number(6), Number(2)>>
    /\ \E i \in 1..(Len(points_series) - 1) : points_series[i] < points_series[i + 1]

====
